---------------------------- MODULE Spec2Model ----------------------------
(***************************************************************************)
(* A model of the Sports Psychologist agent backend (src/main.py): the     *)
(* profile endpoints, the chat turn, context retrieval and text-to-speech. *)
(*                                                                         *)
(* The hosted services (the REST store holding the profiles and messages   *)
(* tables, the vector store, the completion API, the speech API, the       *)
(* evaluator) are the environment: every call to one of them answers with  *)
(* one of the outcomes the code distinguishes (a status code, a body, an   *)
(* exception where the code or a claim speaks of one), chosen freely.      *)
(*                                                                         *)
(* Encodings.  Optional[str] is a sequence of length at most one: <<>> is  *)
(* None (or an absent key), <<s>> is the string s.  Text that the code     *)
(* takes apart or puts together (the TTS text, chunk contents, the         *)
(* context) is a sequence of one-character strings.  User identifiers are  *)
(* UUID tokens (main.py:100), for which the URL interpolation of           *)
(* main.py:105 and :136 is a plain equality filter on the id column.       *)
(***************************************************************************)
EXTENDS Integers, Sequences, FiniteSets, TLC

VARIABLES
    profiles,    \* the store's profiles table: a sequence of rows
    messages,    \* the store's messages table: rows in insertion order
    lastWrite,   \* history variable: per id, the profile of the latest accepted write
    resp,        \* the response of the latest profile-endpoint request
    turn,        \* the chat turns in flight: per turn, its position and locals
    started,     \* number of chat turns started so far
    tts,         \* the latest /tts request, its upstream call and its response
    rc           \* the latest direct call of retrieve_context and its result

vars == <<profiles, messages, lastWrite, resp, turn, started, tts, rc>>

---------------------------------------------------------------------------
(* Bounds of the model *)

\* Chat turns started in one behaviour (each appends at most two messages).
MaxTurns == 2

\* Longest text of a /tts request, in characters.
MaxTextLen == 3

\* Longest page_content of a retrieved chunk, in characters.
MaxChunkLen == 2

---------------------------------------------------------------------------
(* Optional values *)

None == <<>>

Some(s) == <<s>>

\* Python truthiness of an Optional[str]: neither None nor the empty string.
Truthy(v) == v # None /\ v[1] # ""

---------------------------------------------------------------------------
(* Inputs *)

UserIds == {"u1", "u2"}

\* The sport/goals/level/notes/updated_at values a caller may submit.
FieldSets ==
    { [sport |-> Some("Tennis"), goals |-> Some("Win tournament"),
       level |-> Some("Intermediate"), notes |-> Some("Focus on serve"),
       updated_at |-> None],
      [sport |-> Some("Basketball"), goals |-> Some("Increase scoring"),
       level |-> Some("Advanced"), notes |-> Some("Work on defense"),
       updated_at |-> Some("2024-01-01")],
      [sport |-> Some("Golf"), goals |-> None,
       level |-> Some(""), notes |-> None,
       updated_at |-> None] }

\* A JSON body sent to POST/PUT /profile: the id key may be absent.
ProfileBodies ==
    { [id |-> i, sport |-> f.sport, goals |-> f.goals, level |-> f.level,
       notes |-> f.notes, updated_at |-> f.updated_at] :
         i \in {None} \cup {Some(u) : u \in UserIds}, f \in FieldSets }

\* Status codes the REST store answers a write with.
WriteStatuses == {200, 201, 500}

\* Status codes the REST store answers a read with.
ReadStatuses == {200, 500}

---------------------------------------------------------------------------
(* The Profile model, main.py:68-74 *)

\* Validation of a request body against Profile where a missing id falls
\* back to a default instead of being refused.
ParseProfileDefaultId(body) ==
    Some([id |-> IF body.id = None THEN "u1" ELSE body.id[1],
          sport |-> body.sport, goals |-> body.goals, level |-> body.level,
          notes |-> body.notes, updated_at |-> body.updated_at])

\* Validation of a request body against Profile: id is a required str, the
\* other fields default to None.  The Profile object, or None when the body
\* is refused.
ParseProfile(body) ==
    IF body.id = None THEN None
    ELSE Some([id |-> body.id[1], sport |-> body.sport, goals |-> body.goals,
               level |-> body.level, notes |-> body.notes,
               updated_at |-> body.updated_at])

\* profile.dict(): every field of the model, absent ones as null.
ProfileDict(p) ==
    [id |-> Some(p.id), sport |-> p.sport, goals |-> p.goals,
     level |-> p.level, notes |-> p.notes, updated_at |-> p.updated_at]

\* Profile(**row): the model's fields taken from a row of the table.
ProfileFromRow(row) ==
    [id |-> row.id[1], sport |-> row.sport, goals |-> row.goals,
     level |-> row.level, notes |-> row.notes, updated_at |-> row.updated_at]

---------------------------------------------------------------------------
(* The profiles table behind the REST store *)

\* Rows matching the filter id=eq.<user_id>, in table order.
RowsWithId(table, user_id) == SelectSeq(table, LAMBDA r : r.id = Some(user_id))

IndexOfId(table, user_id) ==
    CHOOSE i \in 1..Len(table) : table[i].id = Some(user_id)

\* A POST without the merge-duplicates preference: a plain insert.
PlainInsert(table, row) == Append(table, row)

\* POST .../profiles with Prefer: resolution=merge-duplicates, accepted by the
\* store: the row replaces the one holding its id, or is inserted.
MergeDuplicates(table, row) ==
    IF \E i \in 1..Len(table) : table[i].id = row.id
    THEN [table EXCEPT ![IndexOfId(table, row.id[1])] = row]
    ELSE Append(table, row)

\* upsert_profile's return value: whether the store's status is a success.
UpsertAlwaysTrue(status) == TRUE

upsert_profile(status) == status \in {200, 201}

\* get_profile whose request carries no id filter: the table's first row.
GetProfileUnfiltered(table, user_id, status) ==
    IF status = 200 /\ table # <<>>
    THEN Some(ProfileFromRow(table[1]))
    ELSE None

\* get_profile that answers a failed read with a blank Profile of the id.
GetProfileBlankOnFailure(table, user_id, status) ==
    IF status = 200
    THEN IF RowsWithId(table, user_id) # <<>>
         THEN Some(ProfileFromRow(RowsWithId(table, user_id)[1]))
         ELSE None
    ELSE Some([id |-> user_id, sport |-> None, goals |-> None, level |-> None,
               notes |-> None, updated_at |-> None])

\* get_profile against a read answered with `status`: the first matching row
\* as a Profile, or None.
get_profile(table, user_id, status) ==
    IF status = 200 /\ RowsWithId(table, user_id) # <<>>
    THEN Some(ProfileFromRow(RowsWithId(table, user_id)[1]))
    ELSE None

---------------------------------------------------------------------------
(* Profile endpoints, main.py:392-421 *)

NoResp == [op |-> "none", id |-> None, status |-> 0, body |-> None,
           sent |-> None, upstream |-> 0]

\* POST /profile and PUT /profile share one handler body (they differ in the
\* detail text of the 500).  A body failing validation is answered 422 by
\* the framework and the handler does not run.
WriteProfile(op, body, status) ==
    LET parsed == ParseProfile(body)
    IN IF parsed = None
       THEN /\ resp' = [op |-> op, id |-> None, status |-> 422, body |-> None,
                        sent |-> Some(body), upstream |-> 0]
            /\ UNCHANGED <<profiles, lastWrite>>
       ELSE LET p == parsed[1]
                ok == upsert_profile(status)
            IN /\ profiles' = IF status \in {200, 201}
                              THEN MergeDuplicates(profiles, ProfileDict(p))
                              ELSE profiles
               /\ lastWrite' = IF status \in {200, 201}
                               THEN [lastWrite EXCEPT ![p.id] = Some(p)]
                               ELSE lastWrite
               /\ resp' = [op |-> op, id |-> Some(p.id),
                           status |-> IF ok THEN 200 ELSE 500,
                           body |-> IF ok THEN Some(p) ELSE None,
                           sent |-> Some(body), upstream |-> status]

PostProfile ==
    \E body \in ProfileBodies, status \in WriteStatuses :
        /\ WriteProfile("POST", body, status)
        /\ UNCHANGED <<messages, turn, started, tts, rc>>

PutProfile ==
    \E body \in ProfileBodies, status \in WriteStatuses :
        /\ WriteProfile("PUT", body, status)
        /\ UNCHANGED <<messages, turn, started, tts, rc>>

GetProfile ==
    \E user_id \in UserIds, status \in ReadStatuses :
        LET profile == get_profile(profiles, user_id, status)
        IN /\ resp' = [op |-> "GET", id |-> Some(user_id),
                       status |-> IF profile = None THEN 404 ELSE 200,
                       body |-> profile, sent |-> None, upstream |-> status]
           /\ UNCHANGED <<profiles, lastWrite, messages, turn, started, tts, rc>>

---------------------------------------------------------------------------
(* Text as sequences of characters *)

RECURSIVE SeqsUpTo(_, _)
\* All sequences over S of length at most n.
SeqsUpTo(S, n) ==
    IF n = 0 THEN {<<>>}
    ELSE LET shorter == SeqsUpTo(S, n - 1)
         IN shorter \cup {Append(s, c) : s \in shorter, c \in S}

IsSpace(c) == c \in {" ", "\n", "\t"}

RECURSIVE LStrip(_)
LStrip(s) == IF s # <<>> /\ IsSpace(Head(s)) THEN LStrip(Tail(s)) ELSE s

RECURSIVE RStrip(_)
RStrip(s) ==
    IF s # <<>> /\ IsSpace(s[Len(s)]) THEN RStrip(SubSeq(s, 1, Len(s) - 1)) ELSE s

\* str.strip(): leading and trailing whitespace removed.
Strip(s) == RStrip(LStrip(s))

RECURSIVE Join(_, _)
\* sep.join(parts)
Join(sep, parts) ==
    IF parts = <<>> THEN <<>>
    ELSE IF Len(parts) = 1 THEN parts[1]
    ELSE parts[1] \o sep \o Join(sep, Tail(parts))

---------------------------------------------------------------------------
(* Text-to-speech, main.py:214-241 and 423-438 *)

DefaultVoice == "EXAVITQu4vr4xnSDxMaL"

TtsChars == {" ", "\n", "a"}

TtsTexts == SeqsUpTo(TtsChars, MaxTextLen)

VoiceIds == {None, Some(""), Some("voice-1")}

\* What the speech API does with a call: answers 200 with audio bytes,
\* answers another status, or the transport raises.
TtsUpstream ==
    { [kind |-> "ok", content |-> c] : c \in {"mp3-a", "mp3-b"} }
      \cup { [kind |-> "status", content |-> "error text"],
             [kind |-> "raise", content |-> ""] }

NoUpstream == [kind |-> "none", content |-> ""]

NoTts == [text |-> <<>>, voice_id |-> None, status |-> 0, media_type |-> "",
          body |-> "", called |-> FALSE, voice |-> "", upstream |-> NoUpstream]

\* The guard of tts_endpoint tested without strip().
TextEmptyNoStrip(text) == text = <<>>

\* `not req.text or not req.text.strip()`
TextEmpty(text) == text = <<>> \/ Strip(text) = <<>>

\* call_elevenlabs_tts that returns the body whatever the status.
TtsResultUnchecked(up) ==
    IF up.kind \in {"ok", "status"}
    THEN [status |-> 200, media_type |-> "audio/mpeg", body |-> up.content]
    ELSE [status |-> 500, media_type |-> "application/json", body |-> "TTS failed"]

\* The response tts_endpoint builds from the upstream call's outcome: the
\* audio streamed as audio/mpeg on a 200, an HTTPException(500) on another
\* status (raised by call_elevenlabs_tts, passed on) or on any exception.
TtsResult(up) ==
    IF up.kind = "ok"
    THEN [status |-> 200, media_type |-> "audio/mpeg", body |-> up.content]
    ELSE [status |-> 500, media_type |-> "application/json", body |-> "TTS failed"]

TtsRequest ==
    \E text \in TtsTexts, voice_id \in VoiceIds, up \in TtsUpstream :
        /\ IF TextEmpty(text)
           THEN tts' = [text |-> text, voice_id |-> voice_id, status |-> 400,
                        media_type |-> "application/json",
                        body |-> "Text for TTS cannot be empty.",
                        called |-> FALSE, voice |-> "", upstream |-> NoUpstream]
           ELSE LET r == TtsResult(up)
                IN tts' = [text |-> text, voice_id |-> voice_id,
                           status |-> r.status, media_type |-> r.media_type,
                           body |-> r.body, called |-> TRUE,
                           voice |-> IF Truthy(voice_id) THEN voice_id[1]
                                     ELSE DefaultVoice,
                           upstream |-> up]
        /\ UNCHANGED <<profiles, messages, lastWrite, resp, turn, started, rc>>

---------------------------------------------------------------------------
(* Context retrieval, main.py:174-194 *)

\* The default k of retrieve_context.
K == 2

Separator == <<"\n", "-", "-", "-", "\n">>

ChunkChars == {"a", "-", "\n"}

ChunkTexts == SeqsUpTo(ChunkChars, MaxChunkLen)

\* What similarity_search(query, k) does: raises, or returns a ranked list of
\* at most k documents, given here by their page_content.
SearchOutcomes ==
    { [raises |-> TRUE, docs |-> <<>>] }
      \cup { [raises |-> FALSE, docs |-> d] : d \in SeqsUpTo(ChunkTexts, K) }

\* retrieve_context without its try/except.
RetrieveNoExcept(search) ==
    IF search.raises THEN [raised |-> TRUE, value |-> <<>>]
    ELSE [raised |-> FALSE, value |-> Join(Separator, search.docs)]

\* retrieve_context joining with a blank line.
RetrieveOtherSeparator(search) ==
    IF search.raises \/ search.docs = <<>> THEN [raised |-> FALSE, value |-> <<>>]
    ELSE [raised |-> FALSE, value |-> Join(<<"\n", "\n">>, search.docs)]

\* retrieve_context: what the call returns (value) and whether an exception
\* leaves it (raised).
retrieve_context(search) ==
    IF search.raises THEN [raised |-> FALSE, value |-> <<>>]
    ELSE IF search.docs = <<>> THEN [raised |-> FALSE, value |-> <<>>]
    ELSE [raised |-> FALSE, value |-> Join(Separator, search.docs)]

NoRc == [called |-> FALSE, search |-> [raises |-> FALSE, docs |-> <<>>],
         result |-> [raised |-> FALSE, value |-> <<>>]]

\* A direct call of retrieve_context (as the unit tests make).
CallRetrieve ==
    \E search \in SearchOutcomes :
        /\ rc' = [called |-> TRUE, search |-> search,
                  result |-> retrieve_context(search)]
        /\ UNCHANGED <<profiles, messages, lastWrite, resp, turn, started, tts>>

---------------------------------------------------------------------------
(* The messages table and its adapters, main.py:125-157 *)

\* The default limit of get_message_history.
HistoryLimit == 20

RECURSIVE Reverse(_)
Reverse(s) == IF s = <<>> THEN <<>> ELSE Append(Reverse(Tail(s)), Head(s))

FirstN(s, n) == SubSeq(s, 1, IF Len(s) < n THEN Len(s) ELSE n)

\* get_message_history against a read answered with `status`: the user's
\* rows, newest first, at most `limit` of them; the empty list on a failure.
get_message_history(table, user_id, limit, status) ==
    IF status = 200
    THEN FirstN(Reverse(SelectSeq(table, LAMBDA m : m.user_id = user_id)), limit)
    ELSE <<>>

\* A row whose role is fixed to "user".
MessageRowUserOnly(user_id, role, content) ==
    [user_id |-> user_id, role |-> "user", content |-> content]

\* The row add_message_to_history posts.
MessageRow(user_id, role, content) ==
    [user_id |-> user_id, role |-> role, content |-> content]

\* add_message_to_history that undoes the turn's user message when the
\* assistant message is refused.
AddMessageWithRollback(table, user_id, role, content, status) ==
    IF status \in {200, 201}
    THEN Append(table, [user_id |-> user_id, role |-> role, content |-> content])
    ELSE IF role = "assistant" /\ table # <<>> /\ table[Len(table)].role = "user"
    THEN SubSeq(table, 1, Len(table) - 1)
    ELSE table

\* The messages table after add_message_to_history's POST was answered with
\* `status`: the store inserts the row exactly when it answers a success.
add_message_to_history(table, user_id, role, content, status) ==
    IF status \in {200, 201}
    THEN Append(table, MessageRow(user_id, role, content))
    ELSE table

---------------------------------------------------------------------------
(* Completion, main.py:365-389 *)

Fallback == "Sorry, I couldn't generate a response."

\* What the completion API answers: 200 with the message content, or a
\* failure status.
CompletionOutcomes ==
    { [status |-> 200, content |-> "Try a short breathing routine."],
      [status |-> 500, content |-> ""] }

call_openai_llm_with_system_prompt(outcome) ==
    IF outcome.status = 200 THEN outcome.content ELSE Fallback

---------------------------------------------------------------------------
(* The chat turn, main.py:282-362 *)

Turns == {"A", "B"}

ChatMessages == {"How can I improve my focus?"}

\* What the similarity search does within a chat turn: it raises, or it
\* returns two chunks.  (The empty result, which gives the same context as
\* a raise, is exercised under SpecRetrieve.)
ChatSearchOutcomes ==
    { [raises |-> TRUE, docs |-> <<>>],
      [raises |-> FALSE, docs |-> << <<"a">>, <<"-", "a">> >>] }

ProfileFields == <<"id", "sport", "goals", "level", "notes", "updated_at">>

\* profile.dict().items() as <<key, value>> pairs, in field order.
ProfileItems(p) ==
    LET d == ProfileDict(p)
    IN [i \in 1..Len(ProfileFields) |-> <<ProfileFields[i], d[ProfileFields[i]]>>]

\* A profile section that prints every item, a null value as str(None).
ProfileInfoUnfiltered(p) ==
    LET items == ProfileItems(p)
    IN [i \in 1..Len(items) |->
          <<items[i][1], IF items[i][2] = None THEN "None" ELSE items[i][2][1]>>]

\* The lines of profile_info after its heading: "k: v" for each item whose
\* value is truthy.
ProfileInfo(p) ==
    LET kept == SelectSeq(ProfileItems(p), LAMBDA kv : Truthy(kv[2]))
    IN [i \in 1..Len(kept) |-> <<kept[i][1], kept[i][2][1]>>]

\* The user prompt: its four sections under their fixed headings.
ComposePrompt(p, history, context, question) ==
    [profile_info |-> ProfileInfo(p), chat_history |-> history,
     context |-> context, question |-> question]

NoPrompt == [profile_info |-> <<>>, chat_history |-> <<>>,
             context |-> <<>>, question |-> ""]

IdleTurn ==
    [pc |-> "idle", user_id |-> "", message |-> "", profile |-> None,
     history |-> <<>>, search |-> [raises |-> FALSE, docs |-> <<>>],
     context |-> <<>>, prompt |-> NoPrompt, ai_response |-> "",
     completion |-> 0, status |-> 0, response |-> "", endedAt |-> "",
     steps |-> <<>>, appended |-> <<>>, attempts |-> <<>>, at |-> <<>>]

\* A handler that waits while another turn of the same user is in flight.
StartChatAsSerialized(t, user_id, message) ==
    /\ turn[t].pc \in {"idle", "done"}
    /\ started < MaxTurns
    /\ \A o \in Turns \ {t} :
         turn[o].pc \in {"idle", "done"} \/ turn[o].user_id # user_id
    /\ turn' = [turn EXCEPT ![t] =
                  [IdleTurn EXCEPT !.pc = "FetchProfile",
                                   !.user_id = user_id,
                                   !.message = message]]
    /\ started' = started + 1
    /\ UNCHANGED <<profiles, messages, lastWrite, resp, tts, rc>>

\* The request {user_id, message} reaches the handler, whatever the other
\* turns are doing.
StartChatAs(t, user_id, message) ==
    /\ turn[t].pc \in {"idle", "done"}
    /\ started < MaxTurns
    /\ turn' = [turn EXCEPT ![t] =
                  [IdleTurn EXCEPT !.pc = "FetchProfile",
                                   !.user_id = user_id,
                                   !.message = message]]
    /\ started' = started + 1
    /\ UNCHANGED <<profiles, messages, lastWrite, resp, tts, rc>>

\* A request reaches the handler.
StartChat(t) ==
    \E user_id \in UserIds, message \in ChatMessages :
        StartChatAs(t, user_id, message)

\* profile = get_profile(req.user_id); 404 when there is none.
FetchProfile(t) ==
    /\ turn[t].pc = "FetchProfile"
    /\ \E status \in ReadStatuses :
         LET profile == get_profile(profiles, turn[t].user_id, status)
         IN turn' = [turn EXCEPT ![t] =
                IF profile = None
                THEN [@ EXCEPT !.pc = "done", !.status = 404,
                               !.endedAt = "Reject",
                               !.steps = Append(@, "FetchProfile")]
                ELSE [@ EXCEPT !.pc = "FetchHistory", !.profile = profile,
                               !.steps = Append(@, "FetchProfile")]]
    /\ UNCHANGED <<profiles, messages, lastWrite, resp, started, tts, rc>>

\* A history fetch that refuses a user without messages, the way the profile
\* check refuses a user without profile.
FetchHistoryRejectsEmpty(t) ==
    /\ turn[t].pc = "FetchHistory"
    /\ \E status \in ReadStatuses :
         LET history == get_message_history(messages, turn[t].user_id,
                                            HistoryLimit, status)
         IN turn' = [turn EXCEPT ![t] =
                IF history = <<>>
                THEN [@ EXCEPT !.pc = "done", !.status = 404,
                               !.endedAt = "FetchHistory",
                               !.steps = Append(@, "FetchHistory")]
                ELSE [@ EXCEPT !.pc = "Retrieve", !.history = history,
                               !.steps = Append(@, "FetchHistory")]]
    /\ UNCHANGED <<profiles, messages, lastWrite, resp, started, tts, rc>>

\* history = get_message_history(req.user_id)
FetchHistory(t) ==
    /\ turn[t].pc = "FetchHistory"
    /\ \E status \in ReadStatuses :
         turn' = [turn EXCEPT ![t] =
                    [@ EXCEPT !.pc = "Retrieve",
                              !.history = get_message_history(
                                  messages, turn[t].user_id, HistoryLimit, status),
                              !.steps = Append(@, "FetchHistory")]]
    /\ UNCHANGED <<profiles, messages, lastWrite, resp, started, tts, rc>>

\* context = retrieve_context(req.message); an exception leaving the call
\* would end the turn in a 500.
Retrieve(t) ==
    /\ turn[t].pc = "Retrieve"
    /\ \E search \in ChatSearchOutcomes :
         LET r == retrieve_context(search)
         IN turn' = [turn EXCEPT ![t] =
                IF r.raised
                THEN [@ EXCEPT !.pc = "done", !.status = 500,
                               !.search = search, !.endedAt = "Retrieve",
                               !.steps = Append(@, "Retrieve")]
                ELSE [@ EXCEPT !.pc = "Compose", !.search = search,
                               !.context = r.value,
                               !.steps = Append(@, "Retrieve")]]
    /\ UNCHANGED <<profiles, messages, lastWrite, resp, started, tts, rc>>

\* profile_info, chat_history, question and the prompt are put together.
Compose(t) ==
    /\ turn[t].pc = "Compose"
    /\ turn' = [turn EXCEPT ![t] =
                  [@ EXCEPT !.pc = "Complete",
                            !.prompt = ComposePrompt(turn[t].profile[1],
                                turn[t].history, turn[t].context, turn[t].message),
                            !.steps = Append(@, "Compose")]]
    /\ UNCHANGED <<profiles, messages, lastWrite, resp, started, tts, rc>>

\* A completion step that calls the API again after a failure status.
CompleteWithRetry(t) ==
    /\ turn[t].pc = "Complete"
    /\ \E outcome \in CompletionOutcomes :
         turn' = [turn EXCEPT ![t] =
                    [@ EXCEPT !.pc = IF outcome.status = 200
                                     THEN "PersistUserMessage" ELSE "Complete",
                              !.ai_response =
                                  call_openai_llm_with_system_prompt(outcome),
                              !.completion = outcome.status,
                              !.steps = Append(@, "Complete")]]
    /\ UNCHANGED <<profiles, messages, lastWrite, resp, started, tts, rc>>

\* ai_response = call_openai_llm_with_system_prompt(prompt, system_prompt)
Complete(t) ==
    /\ turn[t].pc = "Complete"
    /\ \E outcome \in CompletionOutcomes :
         turn' = [turn EXCEPT ![t] =
                    [@ EXCEPT !.pc = "PersistUserMessage",
                              !.ai_response =
                                  call_openai_llm_with_system_prompt(outcome),
                              !.completion = outcome.status,
                              !.steps = Append(@, "Complete")]]
    /\ UNCHANGED <<profiles, messages, lastWrite, resp, started, tts, rc>>

\* One add_message_to_history call of turn t; its boolean result is dropped.
Persist(t, role, content, next, status) ==
    LET after == add_message_to_history(messages, turn[t].user_id, role,
                                        content, status)
    IN /\ messages' = after
       /\ turn' = [turn EXCEPT ![t] =
                     [@ EXCEPT !.pc = next,
                               !.steps = Append(@, turn[t].pc),
                               !.attempts = Append(@, [role |-> role,
                                   accepted |-> status \in {200, 201}]),
                               !.appended = @ \o SubSeq(after, Len(messages) + 1,
                                                        Len(after)),
                               !.at = @ \o [i \in 1..(Len(after) - Len(messages))
                                              |-> Len(messages) + i]]]

\* add_message_to_history(req.user_id, "user", req.message)
PersistUserMessage(t) ==
    /\ turn[t].pc = "PersistUserMessage"
    /\ \E status \in WriteStatuses :
         Persist(t, "user", turn[t].message, "PersistAssistantMessage", status)
    /\ UNCHANGED <<profiles, lastWrite, resp, started, tts, rc>>

\* add_message_to_history(req.user_id, "assistant", ai_response)
PersistAssistantMessage(t) ==
    /\ turn[t].pc = "PersistAssistantMessage"
    /\ \E status \in WriteStatuses :
         Persist(t, "assistant", turn[t].ai_response, "Evaluate", status)
    /\ UNCHANGED <<profiles, lastWrite, resp, started, tts, rc>>

\* A handler that takes the turn's rows out of the messages table again when
\* the evaluation fails.
EvaluateRollsBack(t) ==
    /\ turn[t].pc = "Evaluate"
    /\ \E raises \in BOOLEAN :
         LET own == {turn[t].at[i] : i \in 1..Len(turn[t].at)}
             keep == {i \in 1..Len(messages) : i \notin own}
             kth(n) == CHOOSE k \in keep :
                          Cardinality({j \in keep : j <= k}) = n
         IN /\ turn' = [turn EXCEPT ![t] =
                    IF raises
                    THEN [@ EXCEPT !.pc = "done", !.status = 500,
                                   !.endedAt = "Evaluate",
                                   !.steps = Append(@, "Evaluate")]
                    ELSE [@ EXCEPT !.pc = "Respond",
                                   !.steps = Append(@, "Evaluate")]]
            /\ messages' = IF raises
                           THEN [n \in 1..Cardinality(keep) |-> messages[kth(n)]]
                           ELSE messages
    /\ UNCHANGED <<profiles, lastWrite, resp, started, tts, rc>>

\* evaluate_agent_response(...): its result is printed and dropped; an
\* exception leaving it ends the turn in a 500.
Evaluate(t) ==
    /\ turn[t].pc = "Evaluate"
    /\ \E raises \in BOOLEAN :
         turn' = [turn EXCEPT ![t] =
                    IF raises
                    THEN [@ EXCEPT !.pc = "done", !.status = 500,
                                   !.endedAt = "Evaluate",
                                   !.steps = Append(@, "Evaluate")]
                    ELSE [@ EXCEPT !.pc = "Respond",
                                   !.steps = Append(@, "Evaluate")]]
    /\ UNCHANGED <<profiles, messages, lastWrite, resp, started, tts, rc>>

\* A handler that stores the fallback text but answers with an empty
\* response when the completion failed.
RespondHidesFallback(t) ==
    /\ turn[t].pc = "Respond"
    /\ turn' = [turn EXCEPT ![t] =
                  [@ EXCEPT !.pc = "done", !.status = 200,
                            !.response = IF turn[t].completion = 200
                                         THEN turn[t].ai_response ELSE "",
                            !.endedAt = "Respond",
                            !.steps = Append(@, "Respond")]]
    /\ UNCHANGED <<profiles, messages, lastWrite, resp, started, tts, rc>>

\* return ChatResponse(response=ai_response)
Respond(t) ==
    /\ turn[t].pc = "Respond"
    /\ turn' = [turn EXCEPT ![t] =
                  [@ EXCEPT !.pc = "done", !.status = 200,
                            !.response = turn[t].ai_response,
                            !.endedAt = "Respond",
                            !.steps = Append(@, "Respond")]]
    /\ UNCHANGED <<profiles, messages, lastWrite, resp, started, tts, rc>>

ChatStep(t) ==
    \/ StartChat(t)
    \/ FetchProfile(t)
    \/ FetchHistory(t)
    \/ Retrieve(t)
    \/ Compose(t)
    \/ Complete(t)
    \/ PersistUserMessage(t)
    \/ PersistAssistantMessage(t)
    \/ Evaluate(t)
    \/ Respond(t)

---------------------------------------------------------------------------
(* Specifications *)

\* The service starts against an empty store.
Init ==
    /\ profiles = <<>>
    /\ messages = <<>>
    /\ lastWrite = [u \in UserIds |-> None]
    /\ resp = NoResp
    /\ turn = [t \in Turns |-> IdleTurn]
    /\ started = 0
    /\ tts = NoTts
    /\ rc = NoRc

\* The profile endpoints, requests served one after the other in any order.
NextProfile ==
    \/ PostProfile
    \/ PutProfile
    \/ GetProfile

SpecProfile == Init /\ [][NextProfile]_vars

\* The profiles the store holds when the chat endpoint is exercised: none,
\* or the one of u1.
StoredProfiles ==
    { [id |-> "u1", sport |-> Some("Tennis"), goals |-> None,
       level |-> Some(""), notes |-> Some("Focus on serve"),
       updated_at |-> None] }

InitChat ==
    /\ profiles \in {<<>>} \cup {<<ProfileDict(p)>> : p \in StoredProfiles}
    /\ messages = <<>>
    /\ lastWrite = [u \in UserIds |->
                      IF RowsWithId(profiles, u) = <<>> THEN None
                      ELSE Some(ProfileFromRow(RowsWithId(profiles, u)[1]))]
    /\ resp = NoResp
    /\ turn = [t \in Turns |-> IdleTurn]
    /\ started = 0
    /\ tts = NoTts
    /\ rc = NoRc

\* The chat endpoint, its turns served concurrently.
Next == \E t \in Turns : ChatStep(t)

Spec == InitChat /\ [][Next]_vars

\* The /tts endpoint alone.
NextTts == TtsRequest

SpecTts == Init /\ [][NextTts]_vars

\* retrieve_context alone.
NextRetrieve == CallRetrieve

SpecRetrieve == Init /\ [][NextRetrieve]_vars

---------------------------------------------------------------------------
(* Properties of the chat turn *)

HasProfile(user_id) == RowsWithId(profiles, user_id) # <<>>

Running(t) == turn[t].pc # "idle"

\* C1: a chat turn for an identifier that has no profile in the store is
\* answered 404 at the profile check: it runs no later step and makes no
\* history write, and the messages table holds no row of such an identifier.
NoProfileRejected ==
    /\ \A t \in Turns :
         (Running(t) /\ ~HasProfile(turn[t].user_id)) =>
            /\ turn[t].pc \in {"FetchProfile", "done"}
            /\ turn[t].attempts = <<>>
            /\ turn[t].appended = <<>>
            /\ turn[t].pc = "done" =>
                 /\ turn[t].status = 404
                 /\ turn[t].endedAt = "Reject"
                 /\ turn[t].steps = <<"FetchProfile">>
    /\ \A i \in 1..Len(messages) : HasProfile(messages[i].user_id)

\* A turn for an absent identifier was rejected while the store holds
\* another user's profile.
NoProfileRejectedWitness ==
    \E t \in Turns :
        /\ turn[t].pc = "done"
        /\ turn[t].status = 404
        /\ ~HasProfile(turn[t].user_id)
        /\ profiles # <<>>

PastWrites(t) == turn[t].pc \in {"Evaluate", "Respond"} \/
                 (turn[t].pc = "done" /\ turn[t].endedAt \in {"Evaluate", "Respond"})

\* The rows a turn's accepted history writes should have added.
ExpectedRows(t) ==
    LET rows == << [user_id |-> turn[t].user_id, role |-> "user",
                    content |-> turn[t].message],
                   [user_id |-> turn[t].user_id, role |-> "assistant",
                    content |-> turn[t].ai_response] >>
        acc == turn[t].attempts
    IN (IF Len(acc) >= 1 /\ acc[1].accepted THEN <<rows[1]>> ELSE <<>>)
         \o (IF Len(acc) >= 2 /\ acc[2].accepted THEN <<rows[2]>> ELSE <<>>)

\* C2 as stated: every turn that passed the profile check has appended
\* exactly two records, the user's and then the assistant's.
ExactlyTwoAppended ==
    \A t \in Turns :
        PastWrites(t) =>
            /\ Len(turn[t].appended) = 2
            /\ turn[t].appended[1].role = "user"
            /\ turn[t].appended[2].role = "assistant"

\* C2, amended: a turn that passed the profile check makes exactly two
\* history writes, the user message and then the assistant message, both
\* with the request's identifier; each adds one record exactly when the
\* store accepts it, so the turn appends two records (user, assistant) when
\* both are accepted, fewer when one is refused, and never more than two.
TwoWritesAttempted ==
    \A t \in Turns :
        /\ Len(turn[t].attempts) <= 2
        /\ Len(turn[t].appended) <= Len(turn[t].attempts)
        /\ turn[t].appended = ExpectedRows(t)
        /\ \A i \in 1..Len(turn[t].attempts) :
             turn[t].attempts[i].role = <<"user", "assistant">>[i]
        /\ turn[t].pc = "PersistAssistantMessage" => Len(turn[t].attempts) = 1
        /\ PastWrites(t) =>
             /\ Len(turn[t].attempts) = 2
             /\ (turn[t].attempts[1].accepted /\ turn[t].attempts[2].accepted)
                  => Len(turn[t].appended) = 2
        /\ \A i \in 1..Len(turn[t].appended) :
             \E j \in 1..Len(messages) : messages[j] = turn[t].appended[i]

\* A turn answered 200 after both of its writes were accepted.
TwoWritesAttemptedWitness ==
    \E t \in Turns :
        /\ turn[t].pc = "done"
        /\ turn[t].status = 200
        /\ Len(turn[t].appended) = 2
        /\ turn[t].appended[1].role = "user"
        /\ turn[t].appended[2].role = "assistant"

---------------------------------------------------------------------------
(* Properties of the profile endpoints *)

IsWrite(r) == r.op \in {"POST", "PUT"}

SameFields(a, b) ==
    /\ a.sport = b.sport
    /\ a.goals = b.goals
    /\ a.level = b.level
    /\ a.notes = b.notes

\* C3 as stated: a GET /profile for an identifier whose latest write was
\* accepted answers 200 with the sport, goals, level and notes of that write.
RoundTrip ==
    (resp.op = "GET" /\ lastWrite[resp.id[1]] # None) =>
        /\ resp.status = 200
        /\ SameFields(resp.body[1], lastWrite[resp.id[1]][1])

\* The round trip when the store answers the read with 200 (not C3: the
\* part of it that the code keeps).
RoundTripWhenReadOk ==
    (resp.op = "GET" /\ resp.upstream = 200 /\ lastWrite[resp.id[1]] # None) =>
        /\ resp.status = 200
        /\ resp.body[1].id = resp.id[1]
        /\ SameFields(resp.body[1], lastWrite[resp.id[1]][1])

\* C4: after any sequence of POST /profile and PUT /profile the table holds
\* at most one row per identifier, none for an identifier never written, and
\* the row of an identifier carries the values of its latest accepted write.
OneProfilePerId ==
    /\ \A i \in 1..Len(profiles) : profiles[i].id # None /\ profiles[i].id[1] \in UserIds
    /\ \A u \in UserIds :
         /\ Len(RowsWithId(profiles, u)) <= 1
         /\ (lastWrite[u] = None) <=> (RowsWithId(profiles, u) = <<>>)
         /\ lastWrite[u] # None =>
              LET row == RowsWithId(profiles, u)[1]
                  p == lastWrite[u][1]
              IN /\ row.sport = p.sport /\ row.goals = p.goals
                 /\ row.level = p.level /\ row.notes = p.notes
                 /\ row.updated_at = p.updated_at

\* The latest request rewrote the profile of the identifier inserted first,
\* in a table that holds a second identifier as well.
OneProfilePerIdWitness ==
    /\ IsWrite(resp)
    /\ resp.status = 200
    /\ Len(profiles) = 2
    /\ profiles[1].id = resp.id
    /\ profiles[1].sport = Some("Basketball")
    /\ profiles[2].sport = Some("Tennis")

\* C5: a POST or PUT /profile with a well-formed body answers 200 with the
\* submitted profile exactly when the store answered the upsert with 200 or
\* 201, and 500 otherwise; a 200 always has the profile stored.
WriteStatusFollowsStore ==
    (IsWrite(resp) /\ resp.sent[1].id # None) =>
        /\ (resp.status = 200) <=> (resp.upstream \in {200, 201})
        /\ (resp.status = 500) <=> (resp.upstream \notin {200, 201})
        /\ resp.status = 200 =>
             /\ resp.body # None
             /\ resp.body[1].id = resp.sent[1].id[1]
             /\ SameFields(resp.body[1], resp.sent[1])
             /\ resp.body[1].updated_at = resp.sent[1].updated_at
             /\ RowsWithId(profiles, resp.sent[1].id[1]) # <<>>
             /\ SameFields(RowsWithId(profiles, resp.sent[1].id[1])[1], resp.sent[1])
        /\ resp.status = 500 => resp.body = None

\* A PUT the store refused was answered 500 while an earlier profile stays.
WriteStatusFollowsStoreWitness ==
    /\ resp.op = "PUT"
    /\ resp.status = 500
    /\ resp.upstream = 500
    /\ profiles # <<>>

MissingId(r) == IsWrite(r) /\ r.sent[1].id = None

\* C6: a POST or PUT /profile whose body lacks the id is answered 422 and
\* leaves the profiles table as it was.
MissingIdRejected ==
    [][MissingId(resp') => (resp'.status = 422 /\ profiles' = profiles)]_vars

\* A body without id was refused against a store that holds a profile.
MissingIdRejectedWitness ==
    /\ MissingId(resp)
    /\ resp.status = 422
    /\ profiles # <<>>

---------------------------------------------------------------------------
(* Properties of context retrieval *)

RECURSIVE Offset(_, _)
\* Where the i-th chunk starts in the joined text, counted from 0.
Offset(docs, i) ==
    IF i = 1 THEN 0
    ELSE Offset(docs, i - 1) + Len(docs[i - 1]) + 5

\* C8: for a non-empty ranked list of n <= k chunks the result is the chunks'
\* texts in ranked order with "\n---\n" between neighbours and nothing else.
JoinsChunksInOrder ==
    (rc.called /\ ~rc.search.raises /\ rc.search.docs # <<>>) =>
        LET docs == rc.search.docs
            n == Len(docs)
            v == rc.result.value
        IN /\ n <= K
           /\ ~rc.result.raised
           /\ Len(v) = Offset(docs, n) + Len(docs[n])
           /\ \A i \in 1..n :
                SubSeq(v, Offset(docs, i) + 1, Offset(docs, i) + Len(docs[i])) = docs[i]
           /\ \A i \in 1..(n - 1) :
                SubSeq(v, Offset(docs, i) + Len(docs[i]) + 1, Offset(docs, i + 1))
                  = <<"\n", "-", "-", "-", "\n">>

\* Two different non-empty chunks were joined.
JoinsChunksInOrderWitness ==
    /\ rc.called
    /\ Len(rc.search.docs) = 2
    /\ rc.search.docs[1] = <<"a", "-">>
    /\ rc.search.docs[2] = <<"\n">>
    /\ Len(rc.result.value) = 8

---------------------------------------------------------------------------
(* Properties of text-to-speech *)

Blank(text) == \A i \in 1..Len(text) : text[i] \in {" ", "\n", "\t"}

Handled == tts.status # 0

\* C9: a /tts request whose text is empty or only whitespace is answered 400
\* and the speech API is not called.
EmptyTextRejected ==
    (Handled /\ Blank(tts.text)) =>
        /\ tts.status = 400
        /\ ~tts.called
        /\ tts.upstream.kind = "none"

\* A text of two whitespace characters was refused.
EmptyTextRejectedWitness ==
    /\ tts.text = <<" ", "\n">>
    /\ tts.status = 400
    /\ ~tts.called

\* C10: a /tts request with text to speak calls the speech API once and
\* answers 200 audio/mpeg with the upstream bytes exactly when that call
\* answered 200; another status or an exception is answered 500.
SynthesisFailureSurfaced ==
    (Handled /\ ~Blank(tts.text)) =>
        /\ tts.called
        /\ tts.upstream.kind \in {"ok", "status", "raise"}
        /\ tts.upstream.kind = "ok" =>
             /\ tts.status = 200
             /\ tts.media_type = "audio/mpeg"
             /\ tts.body = tts.upstream.content
        /\ tts.upstream.kind # "ok" => tts.status = 500
        /\ tts.status \in {200, 500}

\* An upstream failure status was answered 500.
SynthesisFailureSurfacedWitness ==
    /\ tts.called
    /\ tts.upstream.kind = "status"
    /\ tts.status = 500
    /\ tts.text = <<"a", " ", "a">>

---------------------------------------------------------------------------
(* Failures of the services behind a chat turn and behind GET /profile *)

\* C11 as stated: a turn for a user whose profile was found, and whose
\* completion call did not succeed, is answered 200 with the fallback text.
DegradedAnswerIs200 ==
    \A t \in Turns :
        (turn[t].pc = "done" /\ turn[t].profile # None /\ turn[t].completion # 200
           /\ turn[t].completion # 0) =>
            /\ turn[t].status = 200
            /\ turn[t].response = "Sorry, I couldn't generate a response."

\* The part of C11 the code keeps: the completion step hands the fallback
\* text to the turn and never ends it.
FallbackNotAnError ==
    \A t \in Turns :
        (turn[t].completion # 200 /\ turn[t].completion # 0) =>
            /\ turn[t].ai_response = "Sorry, I couldn't generate a response."
            /\ turn[t].endedAt # "Complete"
            /\ turn[t].status = 200 => turn[t].response = turn[t].ai_response

\* C12 as stated: GET /profile answers 404 exactly when no row of the table
\* matches the identifier; a failed read of the store is not a 404.
NotFoundOnlyWhenAbsent ==
    resp.op = "GET" =>
        ((resp.status = 404) <=> (RowsWithId(profiles, resp.id[1]) = <<>>))

\* C13 as stated: a turn one of whose history writes was refused by the
\* store is not answered 200.
WriteFailureIs500 ==
    \A t \in Turns :
        (turn[t].pc = "done"
           /\ \E i \in 1..Len(turn[t].attempts) : ~turn[t].attempts[i].accepted)
        => turn[t].status = 500

---------------------------------------------------------------------------
(* Reads of the profile store *)

---------------------------------------------------------------------------
(* The history fetch of a chat turn *)

Did(t, step) == \E i \in 1..Len(turn[t].steps) : turn[t].steps[i] = step

\* C15: the history fetch hands the turn a list and never ends it: the empty
\* list for a user without messages, and otherwise only rows of that user
\* held by the messages table, at most 20 of them; the turn goes on to
\* retrieval.
EmptyHistoryIsNoError ==
    \A t \in Turns :
        Did(t, "FetchHistory") =>
            /\ turn[t].endedAt # "FetchHistory"
            /\ turn[t].pc \notin {"FetchProfile", "FetchHistory"}
            /\ (\A j \in 1..Len(messages) : messages[j].user_id # turn[t].user_id)
                 => turn[t].history = <<>>
            /\ Len(turn[t].history) <= 20
            /\ \A i \in 1..Len(turn[t].history) :
                 /\ turn[t].history[i].user_id = turn[t].user_id
                 /\ \E j \in 1..Len(messages) : messages[j] = turn[t].history[i]

\* A turn for a user without earlier messages ran every step, wrote both
\* messages and was answered 200.
EmptyHistoryIsNoErrorWitness ==
    \E t \in Turns :
        /\ turn[t].pc = "done"
        /\ turn[t].status = 200
        /\ turn[t].history = <<>>
        /\ Did(t, "Retrieve") /\ Did(t, "Complete")
        /\ Len(turn[t].appended) = 2
        /\ Len(messages) = 2

---------------------------------------------------------------------------
(* The order of a chat turn's steps *)

IsPrefix(s, full) == Len(s) <= Len(full) /\ \A i \in 1..Len(s) : s[i] = full[i]

---------------------------------------------------------------------------
(* The two history writes of a turn *)

Orphaned(t) ==
    /\ Len(turn[t].attempts) = 2
    /\ turn[t].attempts[1].accepted
    /\ ~turn[t].attempts[2].accepted

\* C17: the user message of a turn whose assistant write was refused stays
\* in the messages table as the only record of that turn: nothing is rolled
\* back and the turn goes on.
NoRollback ==
    \A t \in Turns :
        Orphaned(t) =>
            /\ turn[t].appended = << [user_id |-> turn[t].user_id, role |-> "user",
                                      content |-> turn[t].message] >>
            /\ \E j \in 1..Len(messages) : messages[j] = turn[t].appended[1]
            /\ turn[t].pc \in {"Evaluate", "Respond", "done"}

\* A turn was answered 200 and the table holds its user message alone.
NoRollbackWitness ==
    \E t \in Turns :
        /\ Orphaned(t)
        /\ turn[t].pc = "done"
        /\ turn[t].status = 200
        /\ messages = << [user_id |-> turn[t].user_id, role |-> "user",
                          content |-> turn[t].message] >>

InFlight(t) == turn[t].pc \notin {"idle", "done"}

\* C18: chat turns of one user are not serialized: while a turn is in flight
\* its next step is never blocked by another turn, and a second request for
\* the same user identifier is accepted at once, so their reads and writes
\* against the store interleave.
NoPerUserSerialization ==
    \A t1, t2 \in Turns :
        (t1 # t2 /\ InFlight(t1)) =>
            /\ ENABLED ChatStep(t1)
            /\ (~InFlight(t2) /\ started < MaxTurns) =>
                 \A m \in ChatMessages :
                     ENABLED StartChatAs(t2, turn[t1].user_id, m)

\* Two turns of one user have both completed; the table reads user-A,
\* user-B, assistant-A, assistant-B, and turn B fetched an empty history.
NoPerUserSerializationWitness ==
    \E a, b \in Turns :
        /\ a # b
        /\ turn[a].pc = "done" /\ turn[b].pc = "done"
        /\ turn[a].status = 200 /\ turn[b].status = 200
        /\ turn[a].user_id = turn[b].user_id
        /\ turn[a].at = <<1, 3>>
        /\ turn[b].at = <<2, 4>>
        /\ turn[b].history = <<>>
        /\ Len(messages) = 4
        /\ [i \in 1..4 |-> messages[i].role] =
              <<"user", "user", "assistant", "assistant">>
        /\ \A i \in 1..4 : messages[i].user_id = turn[a].user_id

\* Every step leaves the rows the messages table already holds in place, in
\* their order, and adds rows only at its end.
MessagesAppendOnly == [][IsPrefix(messages, messages')]_vars

\* No step removes the row of an identifier from the profiles table.
ProfilesNeverDeleted ==
    [][\A id \in UserIds :
          RowsWithId(profiles, id) # <<>> => RowsWithId(profiles', id) # <<>>]_vars

\* C19 as stated: once GET /profile has answered 200 for an identifier, the
\* next GET /profile for it is not answered 404; the profile endpoints add no
\* message.
SeenProfileNeverAbsent ==
    [][/\ messages' = messages
       /\ (resp.op = "GET" /\ resp.status = 200
             /\ resp'.op = "GET" /\ resp'.id = resp.id)
          => resp'.status # 404]_vars

---------------------------------------------------------------------------
(* Prompt composition *)

\* The profiles a turn may hold when it composes its prompt: optional fields
\* absent, empty or filled.
ComposeProfiles ==
    { [id |-> "u1", sport |-> sport, goals |-> goals, level |-> level,
       notes |-> None, updated_at |-> updated_at] :
        sport \in {None, Some("Tennis")},
        goals \in {None, Some(""), Some("Win tournament")},
        level \in {None, Some(""), Some("Intermediate")},
        updated_at \in {None, Some("2024-01-01")} }

\* The messages tables behind the histories.
ComposeTables ==
    { <<>>,
      << MessageRow("u1", "user", "How can I improve my focus?") >>,
      << MessageRow("u1", "user", "How can I improve my focus?"),
         MessageRow("u1", "assistant", Fallback) >> }

\* A turn that has fetched profile p and history h, retrieved its context
\* from search result s, and is about to compose.
AtCompose(p, h, s, m) ==
    [IdleTurn EXCEPT !.pc = "Compose", !.user_id = p.id, !.message = m,
                     !.profile = Some(p), !.history = h, !.search = s,
                     !.context = retrieve_context(s).value,
                     !.steps = <<"FetchProfile", "FetchHistory", "Retrieve">>]

InitCompose ==
    /\ \E p \in ComposeProfiles, table \in ComposeTables :
         /\ profiles = <<ProfileDict(p)>>
         /\ messages = table
         /\ lastWrite = [u \in UserIds |-> IF u = p.id THEN Some(p) ELSE None]
         /\ turn \in [Turns ->
              { AtCompose(p, h, s, m) :
                  h \in {get_message_history(table, p.id, HistoryLimit, status) :
                           status \in ReadStatuses},
                  s \in ChatSearchOutcomes,
                  m \in ChatMessages }]
    /\ resp = NoResp
    /\ started = Cardinality(Turns)
    /\ tts = NoTts
    /\ rc = NoRc

\* The composition step alone.
NextCompose == \E t \in Turns : Compose(t)

SpecCompose == InitCompose /\ [][NextCompose]_vars

FieldIndex(f) == CHOOSE i \in 1..Len(ProfileFields) : ProfileFields[i] = f

SameInputs(t1, t2) ==
    /\ turn[t1].profile = turn[t2].profile
    /\ turn[t1].history = turn[t2].history
    /\ turn[t1].context = turn[t2].context
    /\ turn[t1].message = turn[t2].message

\* C20 as stated: every field of the profile that is not null has its
\* "name: value" line in the profile section.
EveryPresentFieldRendered ==
    \A t \in Turns :
        Did(t, "Compose") =>
            LET d == ProfileDict(turn[t].profile[1])
                info == turn[t].prompt.profile_info
            IN \A f \in DOMAIN d :
                 d[f] # None =>
                    \E i \in 1..Len(info) : info[i] = <<f, d[f][1]>>

\* C20: the prompt is determined by (profile, history, context, message):
\* turns with the same inputs hold the same prompt; its history, context and
\* question sections are the inputs; the profile section has one
\* "name: value" line, in field order, for each field whose value is neither
\* null nor empty, and no line for any other field nor any line "None".
PromptDeterministic ==
    \A t \in Turns :
        Did(t, "Compose") =>
            LET d == ProfileDict(turn[t].profile[1])
                info == turn[t].prompt.profile_info
            IN /\ turn[t].prompt.chat_history = turn[t].history
               /\ turn[t].prompt.context = turn[t].context
               /\ turn[t].prompt.question = turn[t].message
               /\ \A f \in DOMAIN d :
                    Cardinality({i \in 1..Len(info) : info[i][1] = f}) =
                        IF Truthy(d[f]) THEN 1 ELSE 0
               /\ \A i \in 1..Len(info) :
                    /\ info[i][1] \in DOMAIN d
                    /\ d[info[i][1]] = Some(info[i][2])
                    /\ info[i][2] \notin {"None", ""}
               /\ \A i, j \in 1..Len(info) :
                    i < j => FieldIndex(info[i][1]) < FieldIndex(info[j][1])
               /\ \A t2 \in Turns :
                    (Did(t2, "Compose") /\ SameInputs(t, t2)) =>
                        turn[t2].prompt = turn[t].prompt

\* Two turns have composed from the same inputs, their profile having a null
\* field, an empty field and filled fields.
PromptDeterministicWitness ==
    \E t1, t2 \in Turns :
        /\ t1 # t2
        /\ Did(t1, "Compose") /\ Did(t2, "Compose")
        /\ SameInputs(t1, t2)
        /\ turn[t1].profile[1].goals = None
        /\ turn[t1].profile[1].level = Some("")
        /\ turn[t1].history # <<>>
        /\ turn[t1].context # <<>>
        /\ turn[t1].prompt.profile_info =
              << <<"id", "u1">>, <<"sport", "Tennis">>,
                 <<"updated_at", "2024-01-01">> >>

FailedInEvaluate(t) == turn[t].pc = "done" /\ turn[t].endedAt = "Evaluate"

Answered(t) == turn[t].pc = "done" /\ turn[t].status = 200

=============================================================================
